---- MODULE Spec2Model ----
(***************************************************************************)
(* Quiz generator service: the HTTP handlers of src/main.py, the           *)
(* orchestrator of src/services/quiz_generator.py, the response extractor  *)
(* of src/services/ai_client.py, the document-store gateway of             *)
(* src/services/database.py and the pydantic models of src/models.         *)
(*                                                                         *)
(* A handler is a coroutine; it is cut into one action per stretch of code *)
(* between two suspension points (the awaited model call and the awaited   *)
(* store calls).  The collaborators (content processor, model API, store)  *)
(* answer nondeterministically, failures included.                         *)
(***************************************************************************)
EXTENDS Integers, Sequences, FiniteSets, TLC

\* ------------------------------------------------------------------ bounds
MaxStored == 2      \* documents inserted over one run (caps the id counter)
MaxArr == 2         \* longest enumerated "questions" array of mixed elements

\* ------------------------------------------------------- program constants
ContentMinLen == 100
QuestionMinLen == 10
ExplanationMinLen == 20
QuizMinQuestions == 1
QuizMaxQuestions == 20
NumQuestionsMin == 1
NumQuestionsMax == 20
DefaultNumQuestions == 10
ObjectIdLen == 24
ListLimitMin == 1
ListLimitMax == 100
ListOffsetMin == 0

Reqs == {"r1", "r2"}

\* ------------------------------------------------------------- JSON values
\* A JSON value after json.loads: a tag, the scalar's text, a list's items.
JStr(x) == [t |-> "str", s |-> x, xs |-> <<>>]
JBool(b) == [t |-> "bool", s |-> IF b THEN "True" ELSE "False", xs |-> <<>>]
JNull == [t |-> "null", s |-> "", xs |-> <<>>]
JNum(x) == [t |-> "num", s |-> x, xs |-> <<>>]
JList(items) == [t |-> "list", s |-> "", xs |-> items]

\* ---------------------------------------------------------- domain model
QuestionType == {"multiple_choice", "boolean", "open"}
DifficultyLevel == {"easy", "medium", "hard"}

\* str.lower() on the strings str(bool) can produce
Lower(x) == CASE x = "True" -> "true"
              [] x = "False" -> "false"
              [] OTHER -> x

\* Variant of Question without the validator: the value is kept as given
KeepAnswerAsGiven(v) == v

\* Question.convert_answer_to_string: a bool becomes str(v).lower(), any
\* other value str(v); the result is a str
convert_answer_to_string(v) == IF v.t = "bool" THEN JStr(Lower(v.s)) ELSE JStr(v.s)

\* pydantic's field validation of Question, on the keyword arguments built
\* by the extractor (args is a record with all eight fields)
QuestionFieldsValid(args) ==
    /\ args.question.t = "str" /\ Len(args.question.s) >= QuestionMinLen
    /\ args.correct_answer.t \in {"str", "bool"}
    /\ args.options.t \in {"null", "list"}
    /\ args.explanation.t = "str" /\ Len(args.explanation.s) >= ExplanationMinLen
    /\ args.topic.t = "str"
    /\ args.concepts_tested.t = "list"

\* A constructed Question
Question(args) ==
    [question |-> args.question.s,
     type |-> args.type,
     correct_answer |-> convert_answer_to_string(args.correct_answer),
     options |-> args.options,
     explanation |-> args.explanation.s,
     difficulty |-> args.difficulty,
     topic |-> args.topic.s,
     concepts_tested |-> args.concepts_tested.xs]

\* Outcomes of a computation that may raise: ok with a value, or an
\* exception class and message
Ok(v) == [ok |-> TRUE, exc |-> "", msg |-> "", val |-> v]
Raise(cls, m) == [ok |-> FALSE, exc |-> cls, msg |-> m, val |-> <<>>]

\* except ValueError catches ValueError and its subclasses: pydantic's
\* ValidationError and json.JSONDecodeError are such subclasses
IsValueError(cls) == cls \in {"ValueError", "ValidationError", "JSONDecodeError"}

\* One iteration of the extractor's loop: the eight keyword arguments are
\* evaluated left to right, then Question(...) validates
BuildQuestion(q) ==
    IF q.t # "obj" THEN Raise("TypeError", "indices must be integers")
    ELSE LET d == q.v IN
      IF "question" \notin DOMAIN d THEN Raise("KeyError", "question")
      ELSE IF "type" \notin DOMAIN d THEN Raise("KeyError", "type")
      ELSE IF ~(d.type.t = "str" /\ d.type.s \in QuestionType)
        THEN Raise("ValueError", "not a valid QuestionType")
      ELSE IF "correct_answer" \notin DOMAIN d THEN Raise("KeyError", "correct_answer")
      ELSE IF "explanation" \notin DOMAIN d THEN Raise("KeyError", "explanation")
      ELSE IF "difficulty" \notin DOMAIN d THEN Raise("KeyError", "difficulty")
      ELSE IF ~(d.difficulty.t = "str" /\ d.difficulty.s \in DifficultyLevel)
        THEN Raise("ValueError", "not a valid DifficultyLevel")
      ELSE IF "topic" \notin DOMAIN d THEN Raise("KeyError", "topic")
      ELSE IF "concepts_tested" \notin DOMAIN d THEN Raise("KeyError", "concepts_tested")
      ELSE LET args == [question |-> d.question,
                        type |-> d.type.s,
                        correct_answer |-> d.correct_answer,
                        options |-> IF "options" \in DOMAIN d THEN d.options ELSE JNull,
                        explanation |-> d.explanation,
                        difficulty |-> d.difficulty.s,
                        topic |-> d.topic,
                        concepts_tested |-> d.concepts_tested]
           IN IF QuestionFieldsValid(args) THEN Ok(Question(args))
              ELSE Raise("ValidationError", "validation error for Question")

\* Variant of the loop that drops an element that fails and goes on
RECURSIVE ExtractLoopSkipInvalid(_, _, _)
ExtractLoopSkipInvalid(items, i, acc) ==
    IF i > Len(items) THEN Ok(acc)
    ELSE LET b == BuildQuestion(items[i])
         IN IF b.ok THEN ExtractLoopSkipInvalid(items, i + 1, Append(acc, b.val))
            ELSE ExtractLoopSkipInvalid(items, i + 1, acc)

\* Variant of the loop that puts each new question in front of the list
RECURSIVE ExtractLoopPrepend(_, _, _)
ExtractLoopPrepend(items, i, acc) ==
    IF i > Len(items) THEN Ok(acc)
    ELSE LET b == BuildQuestion(items[i])
         IN IF b.ok THEN ExtractLoopPrepend(items, i + 1, <<b.val>> \o acc)
            ELSE b

\* The extractor's loop over response_data["questions"]: the first element
\* that fails aborts the loop by raising; acc is the list built so far
RECURSIVE ExtractLoop(_, _, _)
ExtractLoop(items, i, acc) ==
    IF i > Len(items) THEN Ok(acc)
    ELSE LET b == BuildQuestion(items[i])
         IN IF b.ok THEN ExtractLoop(items, i + 1, Append(acc, b.val))
            ELSE b

\* ------------------------------------------------------- response text
\* The model's text is a sequence of segments: "noise" is a run of prose
\* without brace characters, "lb" / "rb" a lone "{" / "}", "obj" the
\* serialisation of one JSON object (it starts with "{" and ends with "}").
Seg(kind) == [k |-> kind, o |-> <<>>]
ObjSeg(obj) == [k |-> "obj", o |-> obj]

RECURSIVE FindFirst(_, _, _)
FindFirst(text, kinds, i) ==
    IF i > Len(text) THEN 0
    ELSE IF text[i].k \in kinds THEN i
    ELSE FindFirst(text, kinds, i + 1)

RECURSIVE FindLast(_, _, _)
FindLast(text, kinds, i) ==
    IF i < 1 THEN 0
    ELSE IF text[i].k \in kinds THEN i
    ELSE FindLast(text, kinds, i - 1)

\* Variant that looks for the opening brace at the start of the text only
find_lbrace_at_start(text) ==
    IF Len(text) > 0 /\ text[1].k \in {"lb", "obj"} THEN 1 ELSE 0

\* response_text.find('{'): position of the first segment that holds an
\* opening brace, 0 when there is none (Python's -1)
find_lbrace(text) == FindFirst(text, {"lb", "obj"}, 1)
\* response_text.rfind('}'): position of the last segment that holds a
\* closing brace, 0 when there is none
rfind_rbrace(text) == FindLast(text, {"rb", "obj"}, Len(text))

\* response_text[start_idx:end_idx]; empty when the slice is inverted
Slice(text, start, end) == IF start > end THEN <<>> ELSE SubSeq(text, start, end)

\* json.loads on the candidate: one serialised object parses to that
\* object, "{" directly followed by "}" parses to the empty object, every
\* other candidate is a syntax error
json_loads(cand) ==
    IF Len(cand) = 1 /\ cand[1].k = "obj" THEN Ok(cand[1].o)
    ELSE IF Len(cand) = 2 /\ cand[1].k = "lb" /\ cand[2].k = "rb" THEN Ok(<<>>)
    ELSE Raise("JSONDecodeError", "Expecting value")

\* Variant of the extractor that tests start_idx only, not end_idx
ParseResponseNoEndCheck(text) ==
    LET start_idx == find_lbrace(text)
        end_idx == rfind_rbrace(text)
    IN IF start_idx = 0
         THEN Raise("ValueError", "No JSON found in response")
       ELSE LET response_data == json_loads(Slice(text, start_idx, end_idx))
            IN IF ~response_data.ok
                 THEN Raise("ValueError",
                            "Invalid JSON response from AI: " \o response_data.msg)
               ELSE IF "questions" \notin DOMAIN response_data.val
                 THEN Raise("ValueError", "No 'questions' key in response")
               ELSE IF response_data.val.questions.t \in {"null", "num"}
                 THEN Raise("TypeError", "object is not iterable")
               ELSE ExtractLoop(response_data.val.questions.items, 1, <<>>)

\* The part of generate_quiz_questions that runs on the model's text
ParseResponse(text) ==
    LET start_idx == find_lbrace(text)
        end_idx == rfind_rbrace(text)
    IN IF start_idx = 0 \/ end_idx = 0
         THEN Raise("ValueError", "No JSON found in response")
       ELSE LET response_data == json_loads(Slice(text, start_idx, end_idx))
            IN IF ~response_data.ok
                 THEN Raise("ValueError",
                            "Invalid JSON response from AI: " \o response_data.msg)
               ELSE IF "questions" \notin DOMAIN response_data.val
                 THEN Raise("ValueError", "No 'questions' key in response")
               ELSE IF response_data.val.questions.t \in {"null", "num"}
                 THEN Raise("TypeError", "object is not iterable")
               ELSE ExtractLoop(response_data.val.questions.items, 1, <<>>)

\* Variant of Quiz(...) without max_length on questions
ConstructQuizNoMax(book_id, questions, metadata) ==
    IF Len(questions) >= QuizMinQuestions
      THEN Ok([book_id |-> book_id,
               questions |-> questions,
               ai_model |-> "claude-3-5-haiku-20241022",
               generation_prompt |-> "Quiz generated from book content",
               metadata |-> metadata])
      ELSE Raise("ValidationError", "validation error for Quiz")

\* Quiz(...): pydantic validates the length of questions
ConstructQuiz(book_id, questions, metadata) ==
    IF Len(questions) >= QuizMinQuestions /\ Len(questions) <= QuizMaxQuestions
      THEN Ok([book_id |-> book_id,
               questions |-> questions,
               ai_model |-> "claude-3-5-haiku-20241022",
               generation_prompt |-> "Quiz generated from book content",
               metadata |-> metadata])
      ELSE Raise("ValidationError", "validation error for Quiz")

\* ------------------------------------------------------ store identifiers
\* An identifier is a sequence of characters.  bson's ObjectId(s) accepts
\* exactly the strings of 24 hexadecimal digits and str(ObjectId) prints
\* them in lower case.
HexLower == {"0", "1", "2", "3", "4", "5", "6", "7", "8", "9",
             "a", "b", "c", "d", "e", "f"}
HexUpper == {"A", "B", "C", "D", "E", "F"}
LowerHex(c) == CASE c = "A" -> "a" [] c = "B" -> "b" [] c = "C" -> "c"
                 [] c = "D" -> "d" [] c = "E" -> "e" [] c = "F" -> "f"
                 [] OTHER -> c

\* ObjectId(quiz_id): raises InvalidId on a malformed string
ObjectId(quiz_id) ==
    IF Len(quiz_id) = ObjectIdLen
       /\ \A i \in 1..Len(quiz_id) : quiz_id[i] \in HexLower \cup HexUpper
      THEN Ok([i \in 1..Len(quiz_id) |-> LowerHex(quiz_id[i])])
      ELSE Raise("InvalidId", "is not a valid ObjectId")

Digit(n) == CASE n = 0 -> "0" [] n = 1 -> "1" [] n = 2 -> "2" [] n = 3 -> "3"
              [] n = 4 -> "4" [] n = 5 -> "5" [] n = 6 -> "6" [] n = 7 -> "7"
              [] n = 8 -> "8" [] OTHER -> "9"

\* The n-th identifier the store assigns to an inserted document
NewObjectId(n) == [i \in 1..ObjectIdLen |-> IF i = ObjectIdLen THEN Digit(n) ELSE "0"]

\* ------------------------------------------------------------------ inputs
QA == [t |-> "obj",
       v |-> [question |-> JStr("What is the capital of Italy?"),
              type |-> JStr("multiple_choice"),
              correct_answer |-> JStr("Rome"),
              options |-> JList(<<"Rome", "Milan", "Naples", "Venice">>),
              explanation |-> JStr("Rome is the capital and largest city of Italy."),
              difficulty |-> JStr("easy"),
              topic |-> JStr("Geography"),
              concepts_tested |-> JList(<<"Italian cities">>)]]
QB == [t |-> "obj",
       v |-> [question |-> JStr("Is Rome located in northern Italy?"),
              type |-> JStr("boolean"),
              correct_answer |-> JBool(FALSE),
              explanation |-> JStr("Rome is located in central Italy."),
              difficulty |-> JStr("medium"),
              topic |-> JStr("Geography"),
              concepts_tested |-> JList(<<"Italian geography">>)]]
\* question text and explanation below the minimum lengths
QShort == [t |-> "obj",
           v |-> [question |-> JStr("Short?"),
                  type |-> JStr("multiple_choice"),
                  correct_answer |-> JStr("Answer"),
                  explanation |-> JStr("Short"),
                  difficulty |-> JStr("easy"),
                  topic |-> JStr("Test"),
                  concepts_tested |-> JList(<<"test">>)]]
\* the "explanation" field is missing
QNoKey == [t |-> "obj",
           v |-> [question |-> JStr("What is the capital of France?"),
                  type |-> JStr("open"),
                  correct_answer |-> JStr("Paris"),
                  difficulty |-> JStr("hard"),
                  topic |-> JStr("Geography"),
                  concepts_tested |-> JList(<<"capitals">>)]]
\* a type outside the enumeration
QBadType == [t |-> "obj",
             v |-> [question |-> JStr("What is the capital of Spain?"),
                    type |-> JStr("essay"),
                    correct_answer |-> JStr("Madrid"),
                    explanation |-> JStr("Madrid is the capital of Spain."),
                    difficulty |-> JStr("easy"),
                    topic |-> JStr("Geography"),
                    concepts_tested |-> JList(<<"capitals">>)]]

\* every field as the Question model asks for it, with no tested concept
QNoConcepts == [t |-> "obj",
                v |-> [question |-> JStr("Which river flows through Rome?"),
                       type |-> JStr("open"),
                       correct_answer |-> JStr("The Tiber"),
                       explanation |-> JStr("The Tiber flows through the city of Rome."),
                       difficulty |-> JStr("hard"),
                       topic |-> JStr("Geography"),
                       concepts_tested |-> JList(<<>>)]]

ValidElems == {QA, QB}
InvalidElems == {QShort, QNoKey, QBadType}
Elems == ValidElems \cup InvalidElems

Rep(e, n) == [i \in 1..n |-> e]

\* The "questions" arrays the model may answer with: every array of at most
\* MaxArr elements, and arrays at and just above the Quiz maximum
Arrays == UNION {[1..n -> Elems] : n \in 0..MaxArr}
            \cup {Rep(QA, QuizMaxQuestions), Rep(QA, QuizMaxQuestions + 1)}

QuestionsObj(arr) == [questions |-> [t |-> "list", items |-> arr]]
DataObj == [data |-> [t |-> "list", items |-> <<>>]]
NullQuestionsObj == [questions |-> [t |-> "null", items |-> <<>>]]

Noise == Seg("noise")
Wrappings == {<<>>, <<Noise>>}

\* The texts the model may answer with
Texts == {pre \o <<ObjSeg(QuestionsObj(a))>> \o suf :
              pre \in Wrappings, suf \in Wrappings, a \in Arrays}
           \cup {<<>>, <<Noise>>, <<Seg("lb")>>, <<Seg("rb")>>,
                 <<Seg("lb"), Seg("rb")>>, <<Seg("rb"), Seg("lb")>>,
                 <<Seg("lb"), Noise, Seg("rb")>>,
                 <<Seg("lb"), ObjSeg(QuestionsObj(<<QA>>)), Seg("rb")>>,
                 <<ObjSeg(QuestionsObj(<<QA>>)), Noise, ObjSeg(QuestionsObj(<<QB>>))>>,
                 <<ObjSeg(DataObj)>>, <<ObjSeg(NullQuestionsObj)>>,
                 <<ObjSeg(QuestionsObj(<<QNoConcepts>>))>>}

BookIds == {"book-1", "book-2"}
NoBook == "<missing>"
Metadatas == {"{chapter: 1}"}

\* request.content: absent (None) or a string, of which the length matters
Content(n) == [present |-> TRUE, len |-> n]
NoContent == [present |-> FALSE, len |-> 0]
ContentInputs == {NoContent, Content(0), Content(ContentMinLen - 1),
                  Content(ContentMinLen)}

\* The "options" member of a request body: omitted, null, or an object
\* with num_questions
OptionsInputs == {[kind |-> "absent", num |-> 0], [kind |-> "null", num |-> 0]}
                   \cup {[kind |-> "given", num |-> n] :
                           n \in {NumQuestionsMin - 1, NumQuestionsMin, NumQuestionsMax + 1}}

\* What the content processor may answer to a fetch
FetchOutcomes == {Raise("RequestException", "connection refused"),
                  Ok(NoContent),
                  Ok(Content(ContentMinLen - 1)),
                  Ok(Content(ContentMinLen))}

\* Query parameters of GET /quizzes: book_id absent, empty or given; limit
\* and offset at and just outside the bounds of their declarations
ListBookInputs == {NoBook, "", "book-1"}
ListLimitInputs == {ListLimitMin - 1, ListLimitMin, ListLimitMax, ListLimitMax + 1}
ListOffsetInputs == {ListOffsetMin - 1, ListOffsetMin, ListOffsetMin + 1}

\* What a ping of the store may answer
PingOutcomes == {Ok(<<>>), Raise("ServerSelectionTimeoutError", "Connection failed")}

\* Identifiers a client may ask for: those the store can assign, an
\* upper-case spelling, a well-formed one that is never assigned, and
\* malformed ones
UpperId == [i \in 1..ObjectIdLen |-> IF i = ObjectIdLen THEN "A" ELSE "0"]
QuizIdInputs == {NewObjectId(n) : n \in 1..MaxStored}
                  \cup {UpperId,
                        <<"n", "o", "p", "e">>,
                        [i \in 1..(ObjectIdLen - 1) |-> "0"],
                        [i \in 1..(ObjectIdLen + 1) |-> "0"],
                        [i \in 1..ObjectIdLen |-> IF i = 1 THEN "g" ELSE "0"]}

\* ------------------------------------------------------------------- state
VARIABLES
    app,            \* lifespan: "starting", "serving", "failed", "stopped"
    dbClient,       \* db_service.client: "none", "connected" (built and
                    \* pinged), "unreachable" (built, ping failed), "closed"
    store,          \* the quizzes collection: documents in insertion order
    nextOid,        \* number of the next identifier the store assigns
    aiClient,       \* ai_service.client: 0 is None, else the handle's number
    aiClientsBuilt, \* how many AsyncAnthropic handles were constructed
    pc,             \* per request: where its handler is suspended
    rq,             \* per request: the request as received
    loc,            \* per request: the handler's local variables
    result,         \* per request: what the service call returned or raised
    status,         \* per request: HTTP status of the answer, 0 if none
    hist            \* per request: collaborator calls made, text received

vars == <<app, dbClient, store, nextOid, aiClient, aiClientsBuilt,
          pc, rq, loc, result, status, hist>>

NoOptions == [null |-> TRUE, num_questions |-> 0]
NoRq == [op |-> "none", entry |-> "", content |-> NoContent, book_id |-> NoBook,
         metadata |-> "{}", options |-> NoOptions, quiz_id |-> <<>>,
         limit |-> 0, offset |-> 0]
NoLoc == [content |-> NoContent, questions |-> <<>>, quiz |-> <<>>, oid |-> <<>>,
          client |-> 0, args |-> <<>>, prompt |-> <<>>]
NoResult == Ok(<<>>)
NotReached == Raise("NotReached", "")
NoHist == [fetchCalls |-> 0, modelCalls |-> 0, insertCalls |-> 0,
           findCalls |-> 0, deleteCalls |-> 0, listCalls |-> 0, pingCalls |-> 0,
           gotText |-> FALSE, text |-> <<>>, store0 |-> <<>>,
           gw |-> Raise("NotCalled", ""), storeRaised |-> FALSE,
           fetch |-> NotReached, extracted |-> NotReached, origin |-> Ok(<<>>),
           others |-> {}]

Init ==
    /\ app = "starting"
    /\ dbClient = "none"
    /\ store = <<>>
    /\ nextOid = 1
    /\ aiClient = 0
    /\ aiClientsBuilt = 0
    /\ pc = [r \in Reqs |-> "idle"]
    /\ rq = [r \in Reqs |-> NoRq]
    /\ loc = [r \in Reqs |-> NoLoc]
    /\ result = [r \in Reqs |-> NoResult]
    /\ status = [r \in Reqs |-> 0]
    /\ hist = [r \in Reqs |-> NoHist]

\* The application object served without its lifespan having run, as the
\* API tests do with TestClient(app): handlers run, connect() never did
InitAnyHost ==
    /\ app \in {"starting", "serving"}
    /\ dbClient = "none"
    /\ store = <<>>
    /\ nextOid = 1
    /\ aiClient = 0
    /\ aiClientsBuilt = 0
    /\ pc = [r \in Reqs |-> "idle"]
    /\ rq = [r \in Reqs |-> NoRq]
    /\ loc = [r \in Reqs |-> NoLoc]
    /\ result = [r \in Reqs |-> NoResult]
    /\ status = [r \in Reqs |-> 0]
    /\ hist = [r \in Reqs |-> NoHist]

\* --------------------------------------------------------------- lifespan
\* Variant of connect() that logs a failed ping without re-raising it
StartupIgnoreFailure ==
    /\ app = "starting"
    /\ \E pingOk \in BOOLEAN :
         /\ dbClient' = IF pingOk THEN "connected" ELSE "unreachable"
         /\ app' = "serving"
    /\ UNCHANGED <<store, nextOid, aiClient, aiClientsBuilt, pc, rq, loc,
                   result, status, hist>>

\* lifespan, startup half: db_service.connect() builds the client and
\* pings; a failed ping is re-raised and the application does not start
Startup ==
    /\ app = "starting"
    /\ \E pingOk \in BOOLEAN :
         /\ dbClient' = IF pingOk THEN "connected" ELSE "unreachable"
         /\ app' = IF pingOk THEN "serving" ELSE "failed"
    /\ UNCHANGED <<store, nextOid, aiClient, aiClientsBuilt, pc, rq, loc,
                   result, status, hist>>

\* db_service.quizzes_collection is set by connect(); before that it is
\* None and every use of it raises AttributeError
CollectionSet == dbClient # "none"
NoCollection(attr) ==
    Raise("AttributeError", "'NoneType' object has no attribute '" \o attr \o "'")

\* lifespan, shutdown half: db_service.disconnect() closes the client
Shutdown ==
    /\ app = "serving"
    /\ \A r \in Reqs : pc[r] = "idle"
    /\ app' = "stopped"
    /\ dbClient' = IF dbClient # "none" THEN "closed" ELSE dbClient
    /\ UNCHANGED <<store, nextOid, aiClient, aiClientsBuilt, pc, rq, loc,
                   result, status, hist>>

\* ------------------------------------------------------- request models
\* QuizOptions as validated: the default object when the member is omitted,
\* None when it is null
ValidatedOptions(o) ==
    CASE o.kind = "absent" -> [null |-> FALSE, num_questions |-> DefaultNumQuestions]
      [] o.kind = "null" -> NoOptions
      [] OTHER -> [null |-> FALSE, num_questions |-> o.num]

OptionsValid(o) ==
    o.kind = "given" => (o.num >= NumQuestionsMin /\ o.num <= NumQuestionsMax)

\* Variant of the request model without min_length on content
RequestValidNoMinLength(body) ==
    /\ body.content.present
    /\ body.book_id # NoBook
    /\ OptionsValid(body.options)

\* QuizGenerationRequest validation of a request body
RequestValid(body) ==
    /\ body.content.present /\ body.content.len >= ContentMinLen
    /\ body.book_id # NoBook
    /\ OptionsValid(body.options)

Bodies == [content : ContentInputs, book_id : BookIds \cup {NoBook},
           metadata : Metadatas, options : OptionsInputs]

\* A request object handed to QuizGeneratorService.generate_quiz without
\* passing through the HTTP layer: its content is whatever the caller set
ServiceRequestOk(body) == body.book_id # NoBook /\ OptionsValid(body.options)

\* ------------------------------------------------------ HTTP error mapping
\* generate_quiz: except ValueError -> 400, except Exception -> 500
GenerateStatus(res) ==
    IF res.ok THEN 200 ELSE IF IsValueError(res.exc) THEN 400 ELSE 500

\* get_quiz: except ValueError -> 404, except Exception -> 500
GetStatus(res) ==
    IF res.ok THEN 200 ELSE IF IsValueError(res.exc) THEN 404 ELSE 500

\* delete_quiz: a false result -> 404, except Exception -> 500
DeleteStatus(res) ==
    IF ~res.ok THEN 500 ELSE IF res.val = <<TRUE>> THEN 200 ELSE 404

\* The status a finished call gets: the handler's mapping for an HTTP
\* request, none for a direct service call
Answer(entry, st) == IF entry = "http" THEN st ELSE 0

\* -------------------------------------------------------------- generate
\* not content
Falsy(content) == ~content.present \/ content.len = 0

\* The failure first raised inside _fetch_document_content: the one of
\* requests.get, or the ValueError for a document without content
FetchRaised(fo) ==
    IF ~fo.ok THEN fo
    ELSE IF Falsy(fo.val) THEN Raise("ValueError", "Document has no content")
    ELSE Ok(fo.val)

\* _fetch_document_content: every failure leaves as a new ValueError whose
\* message is a prefix followed by the message of the failure it wraps
FetchDocumentContent(fo) ==
    IF ~fo.ok
      THEN Raise("ValueError", "Failed to retrieve document content: " \o fo.msg)
    ELSE IF Falsy(fo.val)
      THEN Raise("ValueError",
                 "Error processing document content: " \o FetchRaised(fo).msg)
    ELSE Ok(fo.val)

\* Variant of generate_quiz without the length check on resolved content
ResolveContentNoLengthCheck(request, fo) ==
    LET fetched == IF Falsy(request.content) THEN FetchDocumentContent(fo)
                   ELSE Ok(request.content)
    IN IF ~fetched.ok THEN fetched
       ELSE IF request.options.null
         THEN Raise("AttributeError", "NoneType has no attribute difficulty_distribution")
       ELSE fetched

\* Variant of generate_quiz that checks the length of caller-supplied
\* content only, not of fetched content
ResolveContentTrustFetched(request, fo) ==
    LET fetched == IF Falsy(request.content) THEN FetchDocumentContent(fo)
                   ELSE Ok(request.content)
    IN IF ~fetched.ok THEN fetched
       ELSE IF ~Falsy(request.content) /\ fetched.val.len < ContentMinLen
         THEN Raise("ValueError", "Content must be at least 100 characters long")
       ELSE IF request.options.null
         THEN Raise("AttributeError", "NoneType has no attribute difficulty_distribution")
       ELSE fetched

\* generate_quiz up to the model call: content resolution, the length
\* check, and the prompt rendering of generate_quiz_questions
ResolveContent(request, fo) ==
    LET fetched == IF Falsy(request.content) THEN FetchDocumentContent(fo)
                   ELSE Ok(request.content)
    IN IF ~fetched.ok THEN fetched
       ELSE IF fetched.val.len < ContentMinLen
         THEN Raise("ValueError", "Content must be at least 100 characters long")
       ELSE IF request.options.null
         THEN Raise("AttributeError", "NoneType has no attribute difficulty_distribution")
       ELSE fetched

\* QuizOptions(): the defaults of its fields; the distribution is held in
\* percent, as the prompt renders it
DefaultOptions ==
    [num_questions |-> DefaultNumQuestions,
     difficulty_distribution |-> [easy |-> 30, medium |-> 50, hard |-> 20],
     question_types |-> <<"multiple_choice", "boolean">>,
     language |-> "it"]

\* generate_quiz_questions, the prompt's parameters: they are read off the
\* options object, and None has none of these attributes
RenderPrompt(options) ==
    IF options.null
      THEN Raise("AttributeError", "NoneType has no attribute difficulty_distribution")
      ELSE Ok([DefaultOptions EXCEPT !.num_questions = options.num_questions])

\* Generate requests that may still insert a document (the bound on
\* stored documents counts them)
InFlight == Cardinality({q \in Reqs : pc[q] \in {"await_model", "await_insert"}})

\* The failure first raised before the model call, as it was raised
ResolveRaised(request, fo) ==
    IF Falsy(request.content) /\ ~FetchRaised(fo).ok THEN FetchRaised(fo)
    ELSE ResolveContent(request, fo)

\* Variant of _get_client that constructs a handle on every call
get_client_always_new(client, built) ==
    [client |-> built + 1, built |-> built + 1]

\* AIClientService._get_client (no suspension point inside): the handle is
\* constructed when self.client is None, and self.client is returned
get_client(client, built) ==
    IF client = 0 THEN [client |-> built + 1, built |-> built + 1]
    ELSE [client |-> client, built |-> built]

\* POST /generate-quiz from its arrival to the awaited model call
GenerateStart(r) ==
    /\ app = "serving" /\ pc[r] = "idle" /\ nextOid + InFlight <= MaxStored
    /\ \E entry \in {"http", "service"}, body \in Bodies, fo \in FetchOutcomes :
         /\ entry = "service" => ServiceRequestOk(body)
         /\ LET request == [op |-> "generate", entry |-> entry,
                            content |-> body.content, book_id |-> body.book_id,
                            metadata |-> body.metadata,
                            options |-> ValidatedOptions(body.options),
                            quiz_id |-> <<>>, limit |-> 0, offset |-> 0]
                h0 == [NoHist EXCEPT !.store0 = store]
            IN /\ rq' = [rq EXCEPT ![r] = request]
               /\ IF entry = "http" /\ ~RequestValid(body)
                    THEN \* rejected by the framework before the handler runs
                         /\ pc' = [pc EXCEPT ![r] = "done"]
                         /\ result' = [result EXCEPT ![r] =
                                Raise("RequestValidationError", "Unprocessable Entity")]
                         /\ status' = [status EXCEPT ![r] = 422]
                         /\ hist' = [hist EXCEPT ![r] = h0]
                         /\ UNCHANGED <<loc, aiClient, aiClientsBuilt>>
                    ELSE LET c == ResolveContent(request, fo)
                             h1 == IF Falsy(request.content)
                                     THEN [h0 EXCEPT !.fetchCalls = 1, !.fetch = fo]
                                     ELSE h0
                             g == get_client(aiClient, aiClientsBuilt)
                         IN IF ~c.ok
                              THEN /\ pc' = [pc EXCEPT ![r] = "done"]
                                   /\ result' = [result EXCEPT ![r] = c]
                                   /\ status' = [status EXCEPT ![r] =
                                          Answer(entry, GenerateStatus(c))]
                                   /\ hist' = [hist EXCEPT ![r] =
                                          [h1 EXCEPT !.origin = ResolveRaised(request, fo)]]
                                   /\ UNCHANGED <<loc, aiClient, aiClientsBuilt>>
                              ELSE \* _get_client, then await messages.create
                                   /\ pc' = [pc EXCEPT ![r] = "await_model"]
                                   /\ loc' = [loc EXCEPT ![r] =
                                          [NoLoc EXCEPT !.content = c.val,
                                                        !.client = g.client,
                                                        !.prompt =
                                                          RenderPrompt(request.options).val]]
                                   /\ aiClient' = g.client
                                   /\ aiClientsBuilt' = g.built
                                   /\ hist' = [hist EXCEPT ![r] =
                                          [h1 EXCEPT !.modelCalls = @ + 1]]
                                   /\ UNCHANGED <<result, status>>
    /\ UNCHANGED <<app, dbClient, store, nextOid>>

\* What the model API may answer: an API error, a response whose content
\* list is empty (response.content[0] raises IndexError), or a text
ModelOutcomes == {Raise("APIError", "API rate limit exceeded"),
                  Raise("IndexError", "list index out of range")}
                   \cup {Ok(t) : t \in Texts}

\* QuizGenerationResponse
GenerationResponse(quiz_id, questions) ==
    [quiz_id |-> quiz_id, questions_count |-> Len(questions),
     status |-> "success", ai_model_used |-> "claude-3-5-haiku-20241022"]

\* The failure first raised while the text is parsed, as it was raised:
\* the JSONDecodeError itself where ParseResponse re-raises it wrapped
ParseRaised(text) ==
    LET start_idx == find_lbrace(text)
        end_idx == rfind_rbrace(text)
    IN IF start_idx # 0 /\ end_idx # 0
          /\ ~json_loads(Slice(text, start_idx, end_idx)).ok
         THEN json_loads(Slice(text, start_idx, end_idx))
         ELSE ParseResponse(text)

\* From the model's answer to the awaited insert: extraction, Quiz
\* construction, model_dump, create_quiz
ModelReturns(r) ==
    /\ pc[r] = "await_model"
    /\ \E out \in ModelOutcomes :
         LET questions == IF out.ok THEN ParseResponse(out.val) ELSE out
             quiz == IF questions.ok
                       THEN ConstructQuiz(rq[r].book_id, questions.val, rq[r].metadata)
                       ELSE questions
             raised == IF ~out.ok THEN out
                       ELSE IF ~questions.ok THEN ParseRaised(out.val)
                       ELSE quiz
             h1 == IF out.ok
                     THEN [hist[r] EXCEPT !.gotText = TRUE, !.text = out.val,
                                          !.extracted = questions]
                     ELSE hist[r]
         IN IF quiz.ok /\ CollectionSet
              THEN /\ pc' = [pc EXCEPT ![r] = "await_insert"]
                   /\ loc' = [loc EXCEPT ![r].questions = questions.val,
                                         ![r].quiz = quiz.val]
                   /\ hist' = [hist EXCEPT ![r] = [h1 EXCEPT !.insertCalls = @ + 1]]
                   /\ UNCHANGED <<result, status>>
              ELSE IF quiz.ok
              THEN \* create_quiz on a gateway that never connected
                   LET res == NoCollection("insert_one")
                   IN /\ pc' = [pc EXCEPT ![r] = "done"]
                      /\ loc' = [loc EXCEPT ![r].questions = questions.val,
                                            ![r].quiz = quiz.val]
                      /\ result' = [result EXCEPT ![r] = res]
                      /\ status' = [status EXCEPT ![r] =
                             Answer(rq[r].entry, GenerateStatus(res))]
                      /\ hist' = [hist EXCEPT ![r] = [h1 EXCEPT !.origin = res]]
              ELSE /\ pc' = [pc EXCEPT ![r] = "done"]
                   /\ result' = [result EXCEPT ![r] = quiz]
                   /\ status' = [status EXCEPT ![r] =
                          Answer(rq[r].entry, GenerateStatus(quiz))]
                   /\ hist' = [hist EXCEPT ![r] = [h1 EXCEPT !.origin = raised]]
                   /\ UNCHANGED loc
    /\ UNCHANGED <<app, dbClient, store, nextOid, aiClient, aiClientsBuilt, rq>>

\* A failure of the store while a call is awaited
StoreError == Raise("PyMongoError", "Database error")

\* The document insert_one stores: the dumped quiz plus the assigned _id
StoredDoc(quiz, oid) ==
    [_id |-> oid, book_id |-> quiz.book_id, questions |-> quiz.questions,
     ai_model |-> quiz.ai_model, generation_prompt |-> quiz.generation_prompt,
     metadata |-> quiz.metadata]

\* Variant of create_quiz that calls insert_one again when it raised
InsertReturnsRetry(r) ==
    /\ pc[r] = "await_insert"
    /\ \E inserted \in BOOLEAN :
         IF inserted
           THEN LET oid == NewObjectId(nextOid)
                    res == Ok(GenerationResponse(oid, loc[r].questions))
                IN /\ pc' = [pc EXCEPT ![r] = "done"]
                   /\ store' = Append(store, StoredDoc(loc[r].quiz, oid))
                   /\ nextOid' = nextOid + 1
                   /\ loc' = [loc EXCEPT ![r].oid = oid]
                   /\ result' = [result EXCEPT ![r] = res]
                   /\ status' = [status EXCEPT ![r] =
                          Answer(rq[r].entry, GenerateStatus(res))]
                   /\ UNCHANGED hist
           ELSE /\ hist' = [hist EXCEPT ![r].insertCalls = @ + 1]
                /\ UNCHANGED <<pc, store, nextOid, loc, result, status>>
    /\ UNCHANGED <<app, dbClient, aiClient, aiClientsBuilt, rq>>

\* Variant of generate_quiz in which building the response fails after
\* the document has been inserted
InsertReturnsThenFails(r) ==
    /\ pc[r] = "await_insert"
    /\ pc' = [pc EXCEPT ![r] = "done"]
    /\ LET oid == NewObjectId(nextOid)
           res == Raise("ValidationError", "validation error for QuizGenerationResponse")
       IN /\ store' = Append(store, StoredDoc(loc[r].quiz, oid))
          /\ nextOid' = nextOid + 1
          /\ loc' = [loc EXCEPT ![r].oid = oid]
          /\ result' = [result EXCEPT ![r] = res]
          /\ status' = [status EXCEPT ![r] =
                 Answer(rq[r].entry, GenerateStatus(res))]
          /\ hist' = [hist EXCEPT ![r].origin = res]
    /\ UNCHANGED <<app, dbClient, aiClient, aiClientsBuilt, rq>>

\* insert_one returns or raises; on return the response is built
InsertReturns(r) ==
    /\ pc[r] = "await_insert"
    /\ pc' = [pc EXCEPT ![r] = "done"]
    /\ \E inserted \in BOOLEAN :
         IF inserted
           THEN LET oid == NewObjectId(nextOid)
                    res == Ok(GenerationResponse(oid, loc[r].questions))
                IN /\ store' = Append(store, StoredDoc(loc[r].quiz, oid))
                   /\ nextOid' = nextOid + 1
                   /\ loc' = [loc EXCEPT ![r].oid = oid]
                   /\ result' = [result EXCEPT ![r] = res]
                   /\ status' = [status EXCEPT ![r] =
                          Answer(rq[r].entry, GenerateStatus(res))]
                   /\ UNCHANGED hist
           ELSE LET res == StoreError
                IN /\ result' = [result EXCEPT ![r] = res]
                   /\ status' = [status EXCEPT ![r] =
                          Answer(rq[r].entry, GenerateStatus(res))]
                   /\ hist' = [hist EXCEPT ![r].origin = res]
                   /\ UNCHANGED <<store, nextOid, loc>>
    /\ UNCHANGED <<app, dbClient, aiClient, aiClientsBuilt, rq>>

\* ------------------------------------------------------------ read by id
\* find_one({"_id": oid}): the positions of the matching documents
Matches(oid) == {i \in 1..Len(store) : store[i]._id = oid}
FirstMatch(oid) == CHOOSE i \in Matches(oid) : \A j \in Matches(oid) : i <= j

\* Variant of DatabaseService.get_quiz that lets the exception through
GetQuizReraise(e) == e

\* DatabaseService.get_quiz, except Exception: return None
GetQuizExcept(e) == Ok(<<>>)

\* DatabaseService.delete_quiz, except Exception: return False
DeleteQuizExcept(e) == Ok(<<FALSE>>)

\* QuizGeneratorService.get_quiz on the gateway's return value: None
\* (an ok outcome with no document) becomes a ValueError
ServiceGet(gw) ==
    IF ~gw.ok THEN gw
    ELSE IF gw.val = <<>> THEN Raise("ValueError", "Quiz with ID not found")
    ELSE gw

\* GET /quizzes/{quiz_id} from its arrival to the awaited find_one;
\* a malformed identifier ends the request without a store call
GetStart(r) ==
    /\ app = "serving" /\ pc[r] = "idle"
    /\ \E quiz_id \in QuizIdInputs :
         LET oid == ObjectId(quiz_id)
             h0 == [NoHist EXCEPT !.store0 = store]
         IN /\ rq' = [rq EXCEPT ![r] = [NoRq EXCEPT !.op = "get", !.entry = "http",
                                                    !.quiz_id = quiz_id]]
            /\ IF oid.ok /\ CollectionSet
                 THEN /\ pc' = [pc EXCEPT ![r] = "await_find"]
                      /\ loc' = [loc EXCEPT ![r] = [NoLoc EXCEPT !.oid = oid.val]]
                      /\ hist' = [hist EXCEPT ![r] = [h0 EXCEPT !.findCalls = @ + 1]]
                      /\ UNCHANGED <<result, status>>
                 ELSE LET raised == IF CollectionSet THEN oid
                                    ELSE NoCollection("find_one")
                          gw == GetQuizExcept(raised)
                          res == ServiceGet(gw)
                      IN /\ pc' = [pc EXCEPT ![r] = "done"]
                         /\ hist' = [hist EXCEPT ![r] =
                                [h0 EXCEPT !.gw = gw,
                                           !.origin = IF CollectionSet THEN @ ELSE raised]]
                         /\ result' = [result EXCEPT ![r] = res]
                         /\ status' = [status EXCEPT ![r] = GetStatus(res)]
                         /\ UNCHANGED loc
    /\ UNCHANGED <<app, dbClient, store, nextOid, aiClient, aiClientsBuilt>>

\* DatabaseService.get_quiz after find_one: an exception of the store is
\* caught and None returned; a found document gets its _id as a string
GatewayGet(raised, oid) ==
    IF raised THEN GetQuizExcept(StoreError)
    ELSE IF Matches(oid) = {} THEN Ok(<<>>)
    ELSE Ok(<<store[FirstMatch(oid)]>>)

FindReturns(r) ==
    /\ pc[r] = "await_find"
    /\ \E raised \in BOOLEAN :
         LET gw == GatewayGet(raised, loc[r].oid)
             res == ServiceGet(gw)
         IN /\ pc' = [pc EXCEPT ![r] = "done"]
            /\ hist' = [hist EXCEPT ![r].gw = gw, ![r].storeRaised = raised,
                                    ![r].origin = IF raised THEN StoreError ELSE @]
            /\ result' = [result EXCEPT ![r] = res]
            /\ status' = [status EXCEPT ![r] = GetStatus(res)]
    /\ UNCHANGED <<app, dbClient, store, nextOid, aiClient, aiClientsBuilt, rq, loc>>

\* ---------------------------------------------------------- delete by id
\* The collection after delete_one({"_id": oid})
RemoveAt(seq, i) == [j \in 1..(Len(seq) - 1) |-> IF j < i THEN seq[j] ELSE seq[j + 1]]
\* Variant of delete_one that removes the oldest document when one matches
DeleteOneOldest(oid) == IF Matches(oid) = {} THEN store ELSE RemoveAt(store, 1)

DeleteOne(oid) == IF Matches(oid) = {} THEN store ELSE RemoveAt(store, FirstMatch(oid))

\* DatabaseService.delete_quiz after delete_one: deleted_count > 0, or
\* False when the store raised
GatewayDelete(raised, oid) ==
    IF raised THEN DeleteQuizExcept(StoreError)
    ELSE Ok(<<Matches(oid) # {}>>)

\* The requests whose handlers are suspended at an await
Suspended == {q \in Reqs : pc[q] \notin {"idle", "done"}}

\* DELETE /quizzes/{quiz_id} from its arrival to the awaited delete_one
DeleteStart(r) ==
    /\ app = "serving" /\ pc[r] = "idle"
    /\ \E quiz_id \in QuizIdInputs :
         LET oid == ObjectId(quiz_id)
             h0 == [NoHist EXCEPT !.store0 = store, !.others = Suspended]
         IN /\ rq' = [rq EXCEPT ![r] = [NoRq EXCEPT !.op = "delete", !.entry = "http",
                                                    !.quiz_id = quiz_id]]
            /\ IF oid.ok /\ CollectionSet
                 THEN /\ pc' = [pc EXCEPT ![r] = "await_delete"]
                      /\ loc' = [loc EXCEPT ![r] = [NoLoc EXCEPT !.oid = oid.val]]
                      /\ hist' = [hist EXCEPT ![r] = [h0 EXCEPT !.deleteCalls = @ + 1]]
                      /\ UNCHANGED <<result, status>>
                 ELSE LET raised == IF CollectionSet THEN oid
                                    ELSE NoCollection("delete_one")
                          gw == DeleteQuizExcept(raised)
                      IN /\ pc' = [pc EXCEPT ![r] = "done"]
                         /\ hist' = [hist EXCEPT ![r] =
                                [h0 EXCEPT !.gw = gw,
                                           !.origin = IF CollectionSet THEN @ ELSE raised]]
                         /\ result' = [result EXCEPT ![r] = gw]
                         /\ status' = [status EXCEPT ![r] = DeleteStatus(gw)]
                         /\ UNCHANGED loc
    /\ UNCHANGED <<app, dbClient, store, nextOid, aiClient, aiClientsBuilt>>

DeleteReturns(r) ==
    /\ pc[r] = "await_delete"
    /\ \E raised \in BOOLEAN :
         LET gw == GatewayDelete(raised, loc[r].oid)
         IN /\ pc' = [pc EXCEPT ![r] = "done"]
            /\ store' = IF raised THEN store ELSE DeleteOne(loc[r].oid)
            /\ hist' = [hist EXCEPT ![r].gw = gw, ![r].storeRaised = raised,
                                    ![r].origin = IF raised THEN StoreError ELSE @]
            /\ result' = [result EXCEPT ![r] = gw]
            /\ status' = [status EXCEPT ![r] = DeleteStatus(gw)]
    /\ UNCHANGED <<app, dbClient, nextOid, aiClient, aiClientsBuilt, rq, loc>>

\* ------------------------------------------------------------------ list
\* Variant of the limit parameter declared without le=100
ListQueryValidNoUpper(limit, offset) ==
    limit >= ListLimitMin /\ offset >= ListOffsetMin

\* Query(10, ge=1, le=100) on limit and Query(0, ge=0) on offset
ListQueryValid(limit, offset) ==
    limit >= ListLimitMin /\ limit <= ListLimitMax /\ offset >= ListOffsetMin

\* DatabaseService.get_quizzes: the filter is applied when book_id is
\* truthy; then skip(offset) and limit(limit) on the matching documents
get_quizzes(book_id, limit, offset) ==
    LET filtered == IF book_id # NoBook /\ book_id # ""
                      THEN SelectSeq(store, LAMBDA d : d.book_id = book_id)
                      ELSE store
        last == IF offset + limit < Len(filtered) THEN offset + limit
                ELSE Len(filtered)
    IN Slice(filtered, offset + 1, last)

\* Variant of list_quizzes that reports the size of the whole collection
ListResultCountsStore(quizzes, limit, offset) ==
    [quizzes |-> quizzes, count |-> Len(store), limit |-> limit, offset |-> offset]

\* QuizGeneratorService.list_quizzes: the result object
ListResult(quizzes, limit, offset) ==
    [quizzes |-> quizzes, count |-> Len(quizzes), limit |-> limit, offset |-> offset]

\* list_quizzes handler: except Exception -> 500
ListStatus(res) == IF res.ok THEN 200 ELSE 500

\* GET /quizzes from its arrival to the awaited iteration of the cursor
ListStart(r) ==
    /\ app = "serving" /\ pc[r] = "idle"
    /\ \E book_id \in ListBookInputs, limit \in ListLimitInputs,
          offset \in ListOffsetInputs :
         LET h0 == [NoHist EXCEPT !.store0 = store]
             args == [book_id |-> book_id, limit |-> limit, offset |-> offset]
         IN /\ rq' = [rq EXCEPT ![r] = [NoRq EXCEPT !.op = "list", !.entry = "http",
                                                    !.book_id = book_id,
                                                    !.limit = limit,
                                                    !.offset = offset]]
            /\ IF ~ListQueryValid(limit, offset)
                 THEN \* rejected by the framework before the handler runs
                      /\ pc' = [pc EXCEPT ![r] = "done"]
                      /\ result' = [result EXCEPT ![r] =
                             Raise("RequestValidationError", "Unprocessable Entity")]
                      /\ status' = [status EXCEPT ![r] = 422]
                      /\ hist' = [hist EXCEPT ![r] = h0]
                      /\ UNCHANGED loc
                 ELSE IF ~CollectionSet
                 THEN LET res == NoCollection("find")
                      IN /\ pc' = [pc EXCEPT ![r] = "done"]
                         /\ loc' = [loc EXCEPT ![r] = [NoLoc EXCEPT !.args = args]]
                         /\ result' = [result EXCEPT ![r] = res]
                         /\ status' = [status EXCEPT ![r] = ListStatus(res)]
                         /\ hist' = [hist EXCEPT ![r] = [h0 EXCEPT !.origin = res]]
                 ELSE /\ pc' = [pc EXCEPT ![r] = "await_list"]
                      /\ loc' = [loc EXCEPT ![r] = [NoLoc EXCEPT !.args = args]]
                      /\ hist' = [hist EXCEPT ![r] = [h0 EXCEPT !.listCalls = @ + 1]]
                      /\ UNCHANGED <<result, status>>
    /\ UNCHANGED <<app, dbClient, store, nextOid, aiClient, aiClientsBuilt>>

\* The cursor has been read, or the store raised while it was
ListReturns(r) ==
    /\ pc[r] = "await_list"
    /\ \E raised \in BOOLEAN :
         LET a == loc[r].args
             res == IF raised THEN StoreError
                    ELSE Ok(ListResult(get_quizzes(a.book_id, a.limit, a.offset),
                                       a.limit, a.offset))
         IN /\ pc' = [pc EXCEPT ![r] = "done"]
            /\ hist' = [hist EXCEPT ![r].storeRaised = raised,
                                    ![r].origin = IF raised THEN StoreError ELSE @]
            /\ result' = [result EXCEPT ![r] = res]
            /\ status' = [status EXCEPT ![r] = ListStatus(res)]
    /\ UNCHANGED <<app, dbClient, store, nextOid, aiClient, aiClientsBuilt, rq, loc>>

\* ---------------------------------------------------------------- health
\* Variant of health_check that answers 503 when the ping failed
HealthAnswer503(pinged) ==
    IF pinged.ok
      THEN [code |-> 200,
            body |-> [status |-> "healthy", service |-> "quiz-generator",
                      database |-> "connected"]]
      ELSE [code |-> 503,
            body |-> [status |-> "unhealthy", service |-> "quiz-generator",
                      database |-> "disconnected", error |-> pinged.msg]]

\* health_check: both branches return a dict, which is answered with 200
HealthAnswer(pinged) ==
    IF pinged.ok
      THEN [code |-> 200,
            body |-> [status |-> "healthy", service |-> "quiz-generator",
                      database |-> "connected"]]
      ELSE [code |-> 200,
            body |-> [status |-> "unhealthy", service |-> "quiz-generator",
                      database |-> "disconnected", error |-> pinged.msg]]

\* GET /health from its arrival to the awaited ping; db_service.client is
\* None before connect(), and reading .admin on it raises at once
HealthStart(r) ==
    /\ app = "serving" /\ pc[r] = "idle"
    /\ rq' = [rq EXCEPT ![r] = [NoRq EXCEPT !.op = "health", !.entry = "http"]]
    /\ IF dbClient = "none"
         THEN LET pinged == NoCollection("admin")
                  answer == HealthAnswer(pinged)
              IN /\ pc' = [pc EXCEPT ![r] = "done"]
                 /\ hist' = [hist EXCEPT ![r] = [NoHist EXCEPT !.gw = pinged]]
                 /\ result' = [result EXCEPT ![r] = Ok(answer.body)]
                 /\ status' = [status EXCEPT ![r] = answer.code]
         ELSE /\ pc' = [pc EXCEPT ![r] = "await_ping"]
              /\ hist' = [hist EXCEPT ![r] = [NoHist EXCEPT !.pingCalls = @ + 1]]
              /\ UNCHANGED <<result, status>>
    /\ UNCHANGED <<app, dbClient, store, nextOid, aiClient, aiClientsBuilt, loc>>

\* The ping returned or raised
HealthReturns(r) ==
    /\ pc[r] = "await_ping"
    /\ \E pinged \in PingOutcomes :
         LET answer == HealthAnswer(pinged)
         IN /\ pc' = [pc EXCEPT ![r] = "done"]
            /\ hist' = [hist EXCEPT ![r].gw = pinged]
            /\ result' = [result EXCEPT ![r] = Ok(answer.body)]
            /\ status' = [status EXCEPT ![r] = answer.code]
    /\ UNCHANGED <<app, dbClient, store, nextOid, aiClient, aiClientsBuilt, rq, loc>>

\* The answer has been sent: the handler's frame is gone
Respond(r) ==
    /\ pc[r] = "done"
    /\ pc' = [pc EXCEPT ![r] = "idle"]
    /\ rq' = [rq EXCEPT ![r] = NoRq]
    /\ loc' = [loc EXCEPT ![r] = NoLoc]
    /\ result' = [result EXCEPT ![r] = NoResult]
    /\ status' = [status EXCEPT ![r] = 0]
    /\ hist' = [hist EXCEPT ![r] = NoHist]
    /\ UNCHANGED <<app, dbClient, store, nextOid, aiClient, aiClientsBuilt>>

\* ---------------------------------------------------------- specification
\* Requests are served one at a time
Serial == {"r1"}

Next ==
    \/ Startup
    \/ Shutdown
    \/ \E r \in Serial : GenerateStart(r)
    \/ \E r \in Serial : ModelReturns(r)
    \/ \E r \in Serial : InsertReturns(r)
    \/ \E r \in Serial : GetStart(r)
    \/ \E r \in Serial : FindReturns(r)
    \/ \E r \in Serial : DeleteStart(r)
    \/ \E r \in Serial : DeleteReturns(r)
    \/ \E r \in Serial : ListStart(r)
    \/ \E r \in Serial : ListReturns(r)
    \/ \E r \in Serial : HealthStart(r)
    \/ \E r \in Serial : HealthReturns(r)
    \/ \E r \in Serial : Respond(r)

Spec == Init /\ [][Next]_vars

\* The same handlers, on an application that may be served without its
\* lifespan
SpecAnyHost == InitAnyHost /\ [][Next]_vars

\* Generate requests served concurrently: the coroutines of both requests
\* interleave at their await points.  Every request carries the same valid
\* body and the model answers with one of ConcTexts or fails.
ConcRequest == [op |-> "generate", entry |-> "http",
                content |-> Content(ContentMinLen), book_id |-> "book-1",
                metadata |-> "{chapter: 1}",
                options |-> [null |-> FALSE, num_questions |-> DefaultNumQuestions],
                quiz_id |-> <<>>, limit |-> 0, offset |-> 0]
ConcTexts == {<<>>, <<ObjSeg(QuestionsObj(<<QA>>))>>}

ConcGenerateStart(r) == GenerateStart(r) /\ rq'[r] = ConcRequest
ConcModelReturns(r) == ModelReturns(r) /\ hist'[r].text \in ConcTexts
\* DELETE requests served concurrently, all for the first identifier
ConcDeleteStart(r) == DeleteStart(r) /\ rq'[r].quiz_id = NewObjectId(1)

NextConc ==
    \/ Startup
    \/ Shutdown
    \/ \E r \in Reqs : ConcGenerateStart(r)
    \/ \E r \in Reqs : ConcModelReturns(r)
    \/ \E r \in Reqs : ConcDeleteStart(r)
    \/ \E r \in Reqs : DeleteReturns(r)
    \/ \E r \in Reqs : InsertReturns(r)
    \/ \E r \in Reqs : Respond(r)

SpecConc == Init /\ [][NextConc]_vars

TypeOK ==
    /\ app \in {"starting", "serving", "failed", "stopped"}
    /\ nextOid \in 1..(MaxStored + 1)
    /\ Len(store) <= MaxStored
    /\ dbClient \in {"none", "connected", "unreachable", "closed"}
    /\ \A r \in Reqs : pc[r] \in {"idle", "await_model", "await_insert",
                                  "await_find", "await_delete", "await_list",
                                  "await_ping", "done"}

\* ================================================================ claims
Gen(r) == rq[r].op = "generate"
Finished(r) == pc[r] = "done"

\* The text holds a JSON object with a "questions" array
HasArray(text) ==
    LET s == find_lbrace(text)
        e == rfind_rbrace(text)
    IN /\ s # 0 /\ e # 0
       /\ json_loads(Slice(text, s, e)).ok
       /\ "questions" \in DOMAIN json_loads(Slice(text, s, e)).val
       /\ json_loads(Slice(text, s, e)).val.questions.t = "list"

ArrayOf(text) ==
    json_loads(Slice(text, find_lbrace(text), rfind_rbrace(text))).val.questions.items

InvalidAt(text) == {i \in 1..Len(ArrayOf(text)) : ~BuildQuestion(ArrayOf(text)[i]).ok}

NoCollaboratorCall(r) ==
    hist[r].fetchCalls = 0 /\ hist[r].modelCalls = 0 /\ hist[r].insertCalls = 0

\* Content resolution, the model call, the extraction of every question
\* and the Quiz construction have all succeeded for request r
PreInsertStepsOk(r) ==
    /\ loc[r].content.present /\ loc[r].content.len >= ContentMinLen
    /\ hist[r].modelCalls = 1
    /\ hist[r].gotText
    /\ HasArray(hist[r].text)
    /\ InvalidAt(hist[r].text) = {}
    /\ Len(ArrayOf(hist[r].text)) >= QuizMinQuestions
    /\ Len(ArrayOf(hist[r].text)) <= QuizMaxQuestions

\* C1: generate_quiz attempts the insert only after content resolution, the
\* model call, the extraction of every question and the Quiz construction
\* have succeeded; when one of them fails no insert is attempted and the
\* store holds what it held when the request arrived.
C1_InsertOnlyAfterAllSteps ==
    \A r \in Reqs :
        Gen(r) =>
            ((hist[r].insertCalls > 0 \/ store # hist[r].store0)
                => PreInsertStepsOk(r))

C1_Witness ==
    \E r \in Reqs :
        /\ Gen(r) /\ Finished(r) /\ ~result[r].ok
        /\ hist[r].gotText /\ HasArray(hist[r].text)
        /\ InvalidAt(hist[r].text) # {}
        /\ hist[r].insertCalls = 0
        /\ Len(store) > 0 /\ store = hist[r].store0

\* C2: extraction is all-or-nothing: when the "questions" array of the
\* response holds at least one element that fails Question construction,
\* at any position, the extraction raises and no question is returned.
C2_AllOrNothing ==
    \A r \in Reqs :
        (Gen(r) /\ hist[r].gotText /\ HasArray(hist[r].text)
           /\ InvalidAt(hist[r].text) # {})
          => /\ Finished(r)
             /\ ~result[r].ok
             /\ loc[r].questions = <<>>
             /\ hist[r].insertCalls = 0

C2_Witness ==
    \E r \in Reqs :
        /\ Gen(r) /\ Finished(r) /\ hist[r].gotText /\ HasArray(hist[r].text)
        /\ Len(ArrayOf(hist[r].text)) = 2
        /\ InvalidAt(hist[r].text) = {2}
        /\ ~result[r].ok

\* C3: within one generate request the content fetch, the model call and
\* the store insert are each invoked at most once, whatever fails.
C3_NoRetry ==
    \A r \in Reqs :
        /\ hist[r].fetchCalls <= 1
        /\ hist[r].modelCalls <= 1
        /\ hist[r].insertCalls <= 1

C3_Witness ==
    \E r \in Reqs :
        /\ Gen(r) /\ Finished(r)
        /\ ~result[r].ok /\ result[r].exc = "PyMongoError"
        /\ hist[r].fetchCalls = 1 /\ hist[r].modelCalls = 1
        /\ hist[r].insertCalls = 1

\* C4: every stored quiz document has between 1 and 20 questions; when the
\* extractor returns 0 questions or more than 20 the request ends in an
\* error and nothing is stored.
C4_QuestionCountBounds ==
    /\ \A i \in 1..Len(store) :
          /\ Len(store[i].questions) >= QuizMinQuestions
          /\ Len(store[i].questions) <= QuizMaxQuestions
    /\ \A r \in Reqs :
          (Gen(r) /\ hist[r].gotText /\ ParseResponse(hist[r].text).ok
             /\ ~(/\ Len(ParseResponse(hist[r].text).val) >= QuizMinQuestions
                  /\ Len(ParseResponse(hist[r].text).val) <= QuizMaxQuestions))
            => /\ Finished(r)
               /\ ~result[r].ok
               /\ hist[r].insertCalls = 0
               /\ store = hist[r].store0

C4_Witness ==
    \E r \in Reqs :
        /\ Gen(r) /\ Finished(r) /\ hist[r].gotText
        /\ ParseResponse(hist[r].text).ok
        /\ Len(ParseResponse(hist[r].text).val) = QuizMaxQuestions + 1
        /\ ~result[r].ok

\* C5: on success the stored questions are the elements of the model's
\* "questions" array in the same order, as many as the model produced
\* whatever num_questions asked for, and questions_count is the number of
\* questions of the stored document.
C5_OrderAndCount ==
    \A r \in Reqs :
        (Gen(r) /\ Finished(r) /\ result[r].ok)
          => LET arr == ArrayOf(hist[r].text)
                 docs == {i \in 1..Len(store) : store[i]._id = result[r].val.quiz_id}
             IN /\ docs # {}
                /\ \A i \in docs :
                     /\ Len(store[i].questions) = Len(arr)
                     /\ \A k \in 1..Len(arr) :
                          store[i].questions[k] = BuildQuestion(arr[k]).val
                     /\ result[r].val.questions_count = Len(store[i].questions)

C5_Witness ==
    \E r \in Reqs :
        /\ Gen(r) /\ Finished(r) /\ result[r].ok
        /\ Len(ArrayOf(hist[r].text)) = 2
        /\ ArrayOf(hist[r].text)[1] # ArrayOf(hist[r].text)[2]
        /\ rq[r].options.num_questions # 2

\* A failure of request r that is not an input-validation failure: the
\* content fetch, the model API, the extraction or the store insert failed
FetchFailed(r) ==
    /\ hist[r].fetchCalls = 1 /\ hist[r].modelCalls = 0
    /\ ~FetchDocumentContent(hist[r].fetch).ok
ModelApiFailed(r) == hist[r].modelCalls = 1 /\ ~hist[r].gotText
ExtractionFailed(r) == hist[r].gotText /\ ~ParseResponse(hist[r].text).ok
InsertFailed(r) == hist[r].insertCalls = 1

\* C6: POST /generate-quiz answers 400 only for an input-validation
\* failure; a failure of the model API, of the extraction, of the content
\* fetch or of the store insert is answered with 500.
C6_OnlyValidationIs400 ==
    \A r \in Reqs :
        (Gen(r) /\ rq[r].entry = "http" /\ Finished(r) /\ ~result[r].ok
           /\ (FetchFailed(r) \/ ModelApiFailed(r) \/ ExtractionFailed(r)
                 \/ InsertFailed(r)))
          => status[r] = 500

\* C7: a POST /generate-quiz body that fails request validation (content
\* shorter than 100 characters or absent, book_id missing, num_questions
\* outside [1,20]) is answered 422 before the orchestrator runs: no fetch,
\* no model call, no insert.
C7_InvalidBodyIs422 ==
    \A r \in Reqs :
        (Gen(r) /\ rq[r].entry = "http"
           /\ (\/ ~rq[r].content.present
               \/ rq[r].content.len < ContentMinLen
               \/ rq[r].book_id = NoBook
               \/ (~rq[r].options.null
                     /\ (rq[r].options.num_questions < NumQuestionsMin
                           \/ rq[r].options.num_questions > NumQuestionsMax))))
          => /\ Finished(r)
             /\ status[r] = 422
             /\ NoCollaboratorCall(r)
             /\ store = hist[r].store0

C7_Witness ==
    \E r \in Reqs :
        /\ Gen(r) /\ rq[r].entry = "http" /\ Finished(r) /\ status[r] = 422
        /\ rq[r].content.present /\ rq[r].content.len = ContentMinLen - 1
        /\ rq[r].book_id # NoBook
        /\ rq[r].options.num_questions = DefaultNumQuestions

\* A quiz with the identifier of request r exists in the store
QuizExists(r) ==
    /\ ObjectId(rq[r].quiz_id).ok
    /\ \E i \in 1..Len(store) : store[i]._id = ObjectId(rq[r].quiz_id).val

\* C8: GET /quizzes/{id} answers 200 with the stored document when a quiz
\* with that id exists, 404 when none exists (a malformed id included) and
\* 500 when the store lookup itself fails with an exception.
C8_GetStatuses ==
    \A r \in Reqs :
        (rq[r].op = "get" /\ Finished(r))
          => IF hist[r].storeRaised THEN status[r] = 500
             ELSE IF QuizExists(r)
               THEN /\ status[r] = 200
                    /\ result[r].val[1]._id = ObjectId(rq[r].quiz_id).val
             ELSE status[r] = 404

\* A quiz with the identifier of request r existed when r arrived
ExistedAtStart(r) ==
    /\ ObjectId(rq[r].quiz_id).ok
    /\ \E i \in 1..Len(hist[r].store0) :
          hist[r].store0[i]._id = ObjectId(rq[r].quiz_id).val

\* C9: DELETE /quizzes/{id} answers 200 when the quiz existed and was
\* removed, 404 when no quiz with that id exists and 500 when the store
\* delete itself fails with an exception.
C9_DeleteStatuses ==
    \A r \in Reqs :
        (rq[r].op = "delete" /\ Finished(r))
          => IF hist[r].storeRaised THEN status[r] = 500
             ELSE IF ExistedAtStart(r)
               THEN status[r] = 200 /\ ~QuizExists(r)
             ELSE status[r] = 404 /\ store = hist[r].store0

\* A syntactically valid identifier: 24 hexadecimal digits
WellFormedId(quiz_id) ==
    /\ Len(quiz_id) = 24
    /\ \A i \in 1..Len(quiz_id) : quiz_id[i] \in HexLower \cup HexUpper

\* C10: for a syntactically invalid identifier the gateway's get_quiz
\* returns None and its delete_quiz returns False; neither raises and the
\* store's contents are unchanged.
C10_MalformedIdIsNotFound ==
    \A r \in Reqs :
        (rq[r].op \in {"get", "delete"} /\ ~WellFormedId(rq[r].quiz_id))
          => /\ Finished(r)
             /\ hist[r].gw.ok
             /\ hist[r].gw.val = (IF rq[r].op = "get" THEN <<>> ELSE <<FALSE>>)
             /\ store = hist[r].store0

C10_Witness ==
    \E r \in Reqs :
        /\ rq[r].op = "get" /\ Finished(r)
        /\ ~WellFormedId(rq[r].quiz_id)
        /\ Len(rq[r].quiz_id) = 24
        /\ hist[r].gw = Ok(<<>>)
        /\ Len(store) > 0

\* C11: GET /quizzes with limit outside [1,100] or offset below 0 is
\* answered 422 and the store is never queried; with limit in [1,100] and
\* offset >= 0 the service receives exactly the given book_id, limit and
\* offset, and the store is queried once with them.
C11_ListQueryValidation ==
    \A r \in Reqs :
        (rq[r].op = "list" /\ pc[r] # "idle")
          => IF rq[r].limit < 1 \/ rq[r].limit > 100 \/ rq[r].offset < 0
               THEN Finished(r) /\ status[r] = 422 /\ hist[r].listCalls = 0
               ELSE /\ loc[r].args = [book_id |-> rq[r].book_id,
                                      limit |-> rq[r].limit,
                                      offset |-> rq[r].offset]
                    /\ hist[r].listCalls = 1
                    /\ status[r] # 422

C11_Witness ==
    \E r \in Reqs :
        /\ rq[r].op = "list" /\ Finished(r)
        /\ rq[r].limit = 101 /\ rq[r].offset = 0
        /\ status[r] = 422
        /\ Len(store) > 0

\* C12: GET /health is always answered 200: "healthy" / "connected" when
\* the ping succeeded, "unhealthy" / "disconnected" with the exception's
\* message in the error field when it failed; a store that was never
\* connected is such a failure.
C12_HealthAlways200 ==
    \A r \in Reqs :
        (rq[r].op = "health" /\ Finished(r))
          => /\ status[r] = 200
             /\ result[r].ok
             /\ (dbClient = "none") => ~hist[r].gw.ok
             /\ IF hist[r].gw.ok
                  THEN /\ result[r].val.status = "healthy"
                       /\ result[r].val.database = "connected"
                       /\ "error" \notin DOMAIN result[r].val
                  ELSE /\ result[r].val.status = "unhealthy"
                       /\ result[r].val.database = "disconnected"
                       /\ "error" \in DOMAIN result[r].val
                       /\ result[r].val.error = hist[r].gw.msg

C12_Witness ==
    \E r \in Reqs :
        /\ rq[r].op = "health" /\ Finished(r)
        /\ dbClient = "none" /\ hist[r].pingCalls = 0
        /\ status[r] = 200
        /\ result[r].val.status = "unhealthy"

\* C13: every constructed Question holds its correct_answer as a string;
\* a boolean given by the model is held as "true" or "false"; no stored
\* quiz contains a boolean correct_answer.
C13_AnswerIsString ==
    /\ \A i \in 1..Len(store) : \A k \in 1..Len(store[i].questions) :
           store[i].questions[k].correct_answer.t = "str"
    /\ \A r \in Reqs : \A k \in 1..Len(loc[r].questions) :
           LET given == ArrayOf(hist[r].text)[k].v.correct_answer
               held == loc[r].questions[k].correct_answer
           IN /\ held.t = "str"
              /\ given.t = "bool" => held.s \in {"true", "false"}
              /\ given = JBool(FALSE) => held = JStr("false")
              /\ given = JBool(TRUE) => held = JStr("true")
              /\ given.t = "str" => held = given

C13_Witness ==
    \E i \in 1..Len(store) : \E k \in 1..Len(store[i].questions) :
        /\ store[i].questions[k].type = "boolean"
        /\ store[i].questions[k].correct_answer = JStr("false")

\* The text is one JSON object with a "questions" array between a prefix
\* and a suffix that hold no brace
IsWrappedObject(text) ==
    \E i \in 1..Len(text) :
        /\ text[i].k = "obj"
        /\ "questions" \in DOMAIN text[i].o
        /\ text[i].o.questions.t = "list"
        /\ \A j \in 1..Len(text) : j # i => text[j].k = "noise"

ObjectAlone(text) == <<text[CHOOSE i \in 1..Len(text) : text[i].k = "obj"]>>

\* C14: for a response prefix + J + suffix, J a JSON object with a
\* "questions" array and no brace in prefix or suffix, extraction returns
\* what it returns for J alone; with an empty array it succeeds with an
\* empty list.
C14_WrappedSameAsAlone ==
    \A r \in Reqs :
        (hist[r].gotText /\ IsWrappedObject(hist[r].text))
          => LET J == ObjectAlone(hist[r].text)
             IN /\ hist[r].extracted = ParseResponse(J)
                /\ hist[r].extracted = ExtractLoop(J[1].o.questions.items, 1, <<>>)
                /\ J[1].o.questions.items = <<>> => hist[r].extracted = Ok(<<>>)

C14_Witness ==
    \E r \in Reqs :
        /\ hist[r].gotText /\ IsWrappedObject(hist[r].text)
        /\ Len(hist[r].text) = 3
        /\ ObjectAlone(hist[r].text)[1].o.questions.items = <<>>
        /\ hist[r].extracted = Ok(<<>>)

HasOpeningBrace(text) == \E i \in 1..Len(text) : text[i].k \in {"lb", "obj"}
HasClosingBrace(text) == \E i \in 1..Len(text) : text[i].k \in {"rb", "obj"}
\* The substring from the first opening brace to the last closing brace
Candidate(text) ==
    LET first == CHOOSE i \in 1..Len(text) :
                     /\ text[i].k \in {"lb", "obj"}
                     /\ \A j \in 1..(i - 1) : text[j].k \notin {"lb", "obj"}
        last == CHOOSE i \in 1..Len(text) :
                     /\ text[i].k \in {"rb", "obj"}
                     /\ \A j \in (i + 1)..Len(text) : text[j].k \notin {"rb", "obj"}
    IN Slice(text, first, last)

\* C15: extraction failures are classified by the first step that fails:
\* no opening or no closing brace, then a candidate that is not valid
\* JSON, then a parsed object without "questions"; the questions are
\* validated only when these three steps passed.
C15_ClassifiedByFirstFailure ==
    \A r \in Reqs :
        hist[r].gotText
          => LET text == hist[r].text
                 e == hist[r].extracted
             IN IF ~HasOpeningBrace(text) \/ ~HasClosingBrace(text)
                  THEN e = Raise("ValueError", "No JSON found in response")
                ELSE IF ~json_loads(Candidate(text)).ok
                  THEN e = Raise("ValueError",
                                 "Invalid JSON response from AI: "
                                   \o json_loads(Candidate(text)).msg)
                ELSE IF "questions" \notin DOMAIN json_loads(Candidate(text)).val
                  THEN e = Raise("ValueError", "No 'questions' key in response")
                ELSE e.msg \notin {"No JSON found in response",
                                   "Invalid JSON response from AI: Expecting value",
                                   "No 'questions' key in response"}

C15_Witness ==
    \E r \in Reqs :
        /\ hist[r].gotText
        /\ HasOpeningBrace(hist[r].text) /\ HasClosingBrace(hist[r].text)
        /\ json_loads(Candidate(hist[r].text)).ok
        /\ hist[r].extracted = Raise("ValueError", "No 'questions' key in response")

\* The request is valid but for its content member
BodyValidButContent(r) ==
    /\ rq[r].book_id # NoBook
    /\ rq[r].options.null
         \/ (rq[r].options.num_questions >= 1 /\ rq[r].options.num_questions <= 20)

SuppliedLongText(r) == rq[r].content.present /\ rq[r].content.len >= 100

\* C16: a generation request without content is accepted and its content
\* is fetched by book_id; the fetch is invoked exactly when the caller did
\* not supply a text of at least 100 characters.
C16_FetchWhenNoLongText ==
    \A r \in Reqs :
        (Gen(r) /\ Finished(r) /\ BodyValidButContent(r))
          => /\ ~rq[r].content.present => status[r] # 422
             /\ (hist[r].fetchCalls = 1) <=> ~SuppliedLongText(r)

\* The content generate_quiz goes on with: the caller's, or the fetched one
ResolvedContent(r) ==
    IF hist[r].fetchCalls = 1 THEN hist[r].fetch.val ELSE rq[r].content

ContentFetchFailed(r) ==
    hist[r].fetchCalls = 1 /\ (~hist[r].fetch.ok \/ Falsy(hist[r].fetch.val))

\* C17: when the content fetch fails, or the resolved content is shorter
\* than 100 characters, generate_quiz fails before the model is called: no
\* model call and no insert happen in that request.
C17_NoModelCallOnBadContent ==
    \A r \in Reqs :
        (Gen(r) /\ pc[r] # "idle" /\ status[r] # 422
           /\ (ContentFetchFailed(r) \/ ResolvedContent(r).len < 100))
          => /\ Finished(r)
             /\ ~result[r].ok
             /\ hist[r].modelCalls = 0
             /\ hist[r].insertCalls = 0
             /\ store = hist[r].store0

C17_Witness ==
    \E r \in Reqs :
        /\ Gen(r) /\ Finished(r)
        /\ hist[r].fetchCalls = 1
        /\ hist[r].fetch = Ok(Content(99))
        /\ ~result[r].ok /\ hist[r].modelCalls = 0

\* C18: every failure raised inside a request by the content fetch, the
\* model API, the extraction or the store reaches the HTTP boundary as the
\* same error, and the response's detail is that failure's message.
C18_FailureReachesBoundaryUnchanged ==
    \A r \in Reqs :
        (Finished(r) /\ rq[r].entry = "http" /\ ~hist[r].origin.ok)
          => /\ ~result[r].ok
             /\ result[r].exc = hist[r].origin.exc
             /\ result[r].msg = hist[r].origin.msg

\* C19: however concurrently served generate requests interleave at their
\* await points, the model-API handle is constructed at most once, and
\* every call of _get_client returns that one handle.
C19_OneClientHandle ==
    /\ aiClientsBuilt <= 1
    /\ (aiClient = 0) <=> (aiClientsBuilt = 0)
    /\ \A r \in Reqs : hist[r].modelCalls > 0
                         => loc[r].client # 0 /\ loc[r].client = aiClient
    /\ \A r, q \in Reqs : (loc[r].client # 0 /\ loc[q].client # 0)
                            => loc[r].client = loc[q].client

C19_Witness ==
    /\ pc["r1"] = "await_model" /\ pc["r2"] = "await_insert"
    /\ loc["r1"].client # 0 /\ loc["r1"].client = loc["r2"].client
    /\ aiClientsBuilt = 1

\* C20: no handler runs before connect() has completed with a successful
\* ping; after a failed connect the service never serves (and never
\* disconnects); the client is closed only at shutdown, when no handler
\* runs any more.
C20_ServeOnlyWhenConnected ==
    /\ (\E r \in Reqs : pc[r] # "idle") => (app = "serving" /\ dbClient = "connected")
    /\ app = "serving" => dbClient = "connected"
    /\ dbClient = "unreachable" => (app = "failed" /\ \A r \in Reqs : pc[r] = "idle")
    /\ dbClient = "closed" => (app = "stopped" /\ \A r \in Reqs : pc[r] = "idle")
    /\ app \in {"starting", "failed"} => (store = <<>> /\ \A r \in Reqs : rq[r] = NoRq)

C20_Witness ==
    \E r \in Reqs :
        /\ pc[r] = "await_insert"
        /\ app = "serving" /\ dbClient = "connected"

\* The request supplied no options: the member was null, or it was omitted
\* (no enumerated body gives num_questions its default value explicitly)
OptionsNotSupplied(r) ==
    rq[r].options.null \/ rq[r].options.num_questions = 10

\* C21: a generate request that supplies no options (omitted or null, both
\* accepted by request validation) is processed with the default options:
\* 10 questions, easy 30% / medium 50% / hard 20%, types multiple_choice
\* and boolean, language "it".
C21_NoOptionsMeansDefaults ==
    \A r \in Reqs :
        (Gen(r) /\ pc[r] # "idle" /\ status[r] # 422 /\ rq[r].entry = "http"
           /\ OptionsNotSupplied(r))
          => /\ hist[r].modelCalls = 1
             /\ loc[r].prompt =
                  [num_questions |-> 10,
                   difficulty_distribution |-> [easy |-> 30, medium |-> 50, hard |-> 20],
                   question_types |-> <<"multiple_choice", "boolean">>,
                   language |-> "it"]

\* The documents a list request with this book_id is to choose from
Eligible(book_id) ==
    IF book_id = NoBook THEN store
    ELSE SelectSeq(store, LAMBDA d : d.book_id = book_id)

\* C22: every quiz get_quizzes returns for a passed book_id has exactly
\* that book_id, and only when no book_id is passed are the quizzes of all
\* book_ids eligible; at most limit quizzes are returned, taken after
\* skipping offset matching quizzes.
C22_ListFilterAndPage ==
    \A r \in Reqs :
        (rq[r].op = "list" /\ Finished(r) /\ result[r].ok)
          => LET quizzes == result[r].val.quizzes
                 eligible == Eligible(rq[r].book_id)
             IN /\ rq[r].book_id # NoBook
                     => \A i \in 1..Len(quizzes) : quizzes[i].book_id = rq[r].book_id
                /\ Len(quizzes) <= rq[r].limit
                /\ Len(quizzes) <= Len(eligible)
                /\ \A i \in 1..Len(quizzes) :
                      /\ rq[r].offset + i <= Len(eligible)
                      /\ quizzes[i] = eligible[rq[r].offset + i]

\* C23: Question construction fails when concepts_tested is an empty
\* list, so every Question of an extracted batch and of a stored quiz has
\* at least one tested-concept label.
C23_ConceptsNonEmpty ==
    /\ \A i \in 1..Len(store) : \A k \in 1..Len(store[i].questions) :
           Len(store[i].questions[k].concepts_tested) >= 1
    /\ \A r \in Reqs :
           hist[r].extracted.ok
             => \A k \in 1..Len(hist[r].extracted.val) :
                    Len(hist[r].extracted.val[k].concepts_tested) >= 1

\* C24: for every list request that succeeds, count is the length of the
\* quizzes list and at most limit, and the limit and offset fields are
\* those of the request.
C24_ListResultShape ==
    \A r \in Reqs :
        (rq[r].op = "list" /\ Finished(r) /\ result[r].ok)
          => /\ status[r] = 200
             /\ result[r].val.count = Len(result[r].val.quizzes)
             /\ result[r].val.count <= rq[r].limit
             /\ result[r].val.limit = rq[r].limit
             /\ result[r].val.offset = rq[r].offset

C24_Witness ==
    \E r \in Reqs :
        /\ rq[r].op = "list" /\ Finished(r) /\ result[r].ok
        /\ rq[r].limit = 1 /\ rq[r].offset = 0
        /\ Len(store) = 2
        /\ result[r].val.count = 1

\* C25: a parsed response whose "questions" member is present but is not
\* a sequence is rejected with the same failure as a response without a
\* "questions" member.
C25_NonSequenceIsMissing ==
    \A r \in Reqs :
        (hist[r].gotText
           /\ HasOpeningBrace(hist[r].text) /\ HasClosingBrace(hist[r].text)
           /\ json_loads(Candidate(hist[r].text)).ok
           /\ "questions" \in DOMAIN json_loads(Candidate(hist[r].text)).val
           /\ json_loads(Candidate(hist[r].text)).val.questions.t # "list")
          => hist[r].extracted = Raise("ValueError", "No 'questions' key in response")

\* C26: every failure to construct a Question from an element of the
\* array (a missing field, a value outside an enumeration, a text that is
\* too short) is reported as the same kind of failure, the one a too-short
\* text gets, and the failure carries the index of the offending element.
C26_OneFailureKindWithIndex ==
    \A r \in Reqs :
        (hist[r].gotText /\ HasArray(hist[r].text) /\ InvalidAt(hist[r].text) # {})
          => LET k == CHOOSE i \in InvalidAt(hist[r].text) :
                          \A j \in InvalidAt(hist[r].text) : i <= j
             IN /\ ~hist[r].extracted.ok
                /\ hist[r].extracted.exc = BuildQuestion(QShort).exc
                /\ hist[r].extracted.val = <<k>>

\* C27: a generate request ends in a success response if and only if
\* exactly one document was inserted for it: none stores a quiz and
\* reports an error, none reports success without having stored one.
C27_SuccessIffInserted ==
    \A r \in Reqs :
        (Gen(r) /\ Finished(r))
          => /\ result[r].ok <=> (Len(store) = Len(hist[r].store0) + 1)
             /\ result[r].ok
                  => /\ store = Append(hist[r].store0, store[Len(store)])
                     /\ store[Len(store)]._id = result[r].val.quiz_id
                     /\ \A i \in 1..Len(hist[r].store0) :
                            hist[r].store0[i]._id # result[r].val.quiz_id
                     /\ rq[r].entry = "http" => status[r] = 200
             /\ ~result[r].ok
                  => /\ store = hist[r].store0
                     /\ status[r] # 200

C27_Witness ==
    \E r \in Reqs :
        /\ Gen(r) /\ Finished(r) /\ rq[r].entry = "http"
        /\ result[r].ok /\ status[r] = 200
        /\ Len(store) = 2 /\ Len(hist[r].store0) = 1

\* C28: when two DELETE requests for the same existing quiz id are served
\* concurrently, exactly one is answered 200 and the other 404, and the
\* quiz is removed exactly once.
C28_ConcurrentDeletes ==
    (/\ \A r \in Reqs : rq[r].op = "delete" /\ Finished(r) /\ ExistedAtStart(r)
     /\ rq["r1"].quiz_id = rq["r2"].quiz_id
     /\ "r1" \in hist["r2"].others \/ "r2" \in hist["r1"].others)
      => /\ {status["r1"], status["r2"]} = {200, 404}
         /\ ~QuizExists("r1")
         /\ Cardinality({r \in Reqs : hist[r].gw = Ok(<<TRUE>>)}) = 1

\* An identifier the store has assigned to a document
Issued(oid) == \E n \in 1..(nextOid - 1) : oid = NewObjectId(n)

\* C29: once a generate request has returned quiz_id, the stored document
\* carries that identifier, the request's book_id and metadata and the
\* extracted questions in order, and a read of an issued quiz_id returns
\* its document as long as no delete of it has succeeded; afterwards the
\* read reports not found.
C29_ReadAfterGenerate ==
    /\ \A r \in Reqs :
           (Gen(r) /\ Finished(r) /\ result[r].ok)
             => \E i \in 1..Len(store) :
                    /\ store[i]._id = result[r].val.quiz_id
                    /\ store[i].book_id = rq[r].book_id
                    /\ store[i].metadata = rq[r].metadata
                    /\ store[i].questions = hist[r].extracted.val
    /\ \A r \in Reqs :
           (rq[r].op = "get" /\ Finished(r) /\ ObjectId(rq[r].quiz_id).ok
              /\ Issued(ObjectId(rq[r].quiz_id).val))
             => IF QuizExists(r)
                  THEN /\ result[r].ok
                       /\ result[r].val[1]._id = ObjectId(rq[r].quiz_id).val
                       /\ \E i \in 1..Len(store) : store[i] = result[r].val[1]
                  ELSE ~result[r].ok /\ status[r] = 404

\* The identifiers of the documents of a collection
Ids(coll) == {coll[i]._id : i \in 1..Len(coll)}

\* What a step of request r does to the store when it completes
StoreEffect(r) ==
    IF Gen(r)' /\ result'[r].ok
      THEN \E d \in {store'[Len(store')]} :
               store' = Append(store, d) /\ d._id \notin Ids(store)
    ELSE IF rq'[r].op = "delete" /\ status'[r] = 200
      THEN /\ ObjectId(rq'[r].quiz_id).val \in Ids(store)
           /\ Ids(store') = Ids(store) \ {ObjectId(rq'[r].quiz_id).val}
           /\ Len(store') = Len(store) - 1
           /\ \A i \in 1..Len(store') : \E j \in 1..Len(store) : store'[i] = store[j]
    ELSE store' = store

C30_Step ==
    /\ (\A r \in Reqs : ~(pc[r] # "done" /\ pc'[r] = "done")) => store' = store
    /\ \A r \in Reqs : (pc[r] # "done" /\ pc'[r] = "done") => StoreEffect(r)
    /\ \A i \in 1..Len(store) : \A j \in 1..Len(store') :
           store[i]._id = store'[j]._id => store[i] = store'[j]

\* C30: the stored quizzes change only through a successful generate,
\* which adds exactly one document, or a successful delete, which removes
\* exactly the document with the given id; read-by-id, list and the health
\* probe leave the store unchanged, and no stored document is modified.
C30_StoreFrame == [][C30_Step]_vars

C30_Witness ==
    \E r \in Reqs :
        /\ rq[r].op = "delete" /\ Finished(r) /\ status[r] = 200
        /\ Len(hist[r].store0) = 2 /\ Len(store) = 1
        /\ store[1] = hist[r].store0[1]
====
